---------------------------- MODULE Spec2Model ----------------------------
(***************************************************************************)
(* Model of the senditly browser tag: the session-gated SenditlyTag        *)
(* (identify / track / page), the remote client it hands requests to, and  *)
(* the URL-change watcher (listenUrlChange) that wraps the History API.    *)
(*                                                                         *)
(* JavaScript runs handlers to completion on one thread, so every action   *)
(* below is one synchronous run of code between two suspension points.     *)
(***************************************************************************)
EXTENDS Integers, Sequences, FiniteSets, TLC

(***************************************************************************)
(* Bounds of the model.                                                    *)
(***************************************************************************)
MaxOps == 3        \* identify/track/page calls made on one tag
MaxEvents == 3     \* history events (pushState, replaceState, popstate)
MaxPatches == 2    \* third-party wrappers put on the history entry points
MaxDisposals == 2  \* calls of the disposer
MaxInits == 2      \* calls of init on one plugin instance
MaxTicks == 3      \* polling intervals the clock runs for

Urls == {"/a", "/b", "/c"}   \* the URLs of the page the watcher is tried on
TagUrls == {"/a", "/b"}      \* the URLs of the page that carries a tag

VARIABLES
  \* ---- SenditlyTag and the remote endpoint
  tag,                   \* "none" (no tag on the page) or "constructed"
  isBot,                 \* SenditlyTag._isBot
  waitForInit,           \* SenditlyTag._waitForInit: "pending" | "fulfilled"
  initFailed,            \* SenditlyTag._initFailed
  ops,                   \* the calls of identify/track/page, in call order
  requests,              \* the requests handed to fetch, in issue order
  \* ---- window / History.prototype
  href,                  \* window.location.href
  pushState,             \* History.prototype.pushState (a function value)
  replaceState,          \* History.prototype.replaceState
  popstate,              \* handlePopState is a registered popstate listener
  \* ---- the closure of one listenUrlChange call
  owner,                 \* who called listenUrlChange: "none" | "host" | "tag"
  currentUrl,            \* let currentUrl
  isListening,           \* let isListening
  originalPushState,     \* const originalPushState
  originalReplaceState,  \* const originalReplaceState
  \* ---- observation of the callback
  calls,                 \* the callback's invocations <<url, previousUrl>>
  before,                \* the entry points installed when listenUrlChange was called
  disposals,             \* number of calls of the disposer that have returned
  late,                  \* callback invocations made after disconnect returned
  last,                  \* the most recent history event, as it was observed
  events,                \* number of history events so far
  patches,               \* number of third-party wrappers installed so far
  \* ---- a plugin (KartePlugin or SegmentPlugin) and the third-party globals
  plugin,                \* the plugin instance: its variant and this.options
  now,                   \* Date.now(), in milliseconds
  pollers,               \* the retryUntil loops started by init, one per call
  console,               \* the console.error calls of init's catch handler
  krt,                   \* window.krt (a function value)
  tracker,               \* window.tracker
  analytics,             \* window.analytics
  forwards,              \* per call the plugin made of tag.identify: how it
                         \* handles the returned promise
  outcome,               \* the most recent call the third party made of its
                         \* own entry point, as it was observed
  loadedAt               \* Date.now() when the global the plugin waits for
                         \* became usable, -1 while it has not

tagVars == <<tag, isBot, waitForInit, initFailed, ops, requests>>
winVars == <<href, pushState, replaceState, popstate>>
obsVars == <<owner, currentUrl, isListening, originalPushState, originalReplaceState>>
logVars == <<calls, before, disposals, late, last, events, patches>>
plugVars == <<plugin, now, pollers, console, krt, tracker, analytics,
              forwards, outcome, loadedAt>>
vars == <<tagVars, winVars, obsVars, logVars, plugVars>>

(***************************************************************************)
(* Function values.  A function is named by the chain of layers it is made *)
(* of, innermost first: <<"nativePushState">> is the browser's own         *)
(* pushState, Append(f, "wrapped") is wrapHistoryMethod(f) and             *)
(* Append(f, "foreign") is a third-party wrapper around f.  Two functions  *)
(* are referentially equal iff their chains are equal.                     *)
(***************************************************************************)
NoFunction == <<>>
NativePushState == <<"nativePushState">>
NativeReplaceState == <<"nativeReplaceState">>
Foreign(f) == Append(f, "foreign")

NoFunctions == [pushState |-> NoFunction, replaceState |-> NoFunction]

NoEvent == [kind |-> "none", from |-> "", to |-> "", listening |-> FALSE,
            wrapped |-> FALSE, fired |-> <<>>, disposedDuring |-> FALSE,
            stillListening |-> FALSE]


(***************************************************************************)
(* The watcher works on an environment record e: the window globals, the   *)
(* closure variables of listenUrlChange, and the invocations of the        *)
(* callback made during the handler that is running (fired).               *)
(***************************************************************************)
Env == [href |-> href, pushState |-> pushState, replaceState |-> replaceState,
        popstate |-> popstate, currentUrl |-> currentUrl,
        isListening |-> isListening,
        originalPushState |-> originalPushState,
        originalReplaceState |-> originalReplaceState,
        fired |-> <<>>, disposals |-> disposals, late |-> late]

\* callback(newUrl, previousUrl): the subscriber is invoked once.
callback(e, url, previousUrl) ==
  [e EXCEPT !.fired = Append(@, <<url, previousUrl>>),
            !.late = @ + (IF e.disposals > 0 THEN 1 ELSE 0)]

\* handlePopState: the popstate listener.
handlePopState(e) ==
  IF ~e.isListening THEN e
  ELSE LET previousUrl == e.currentUrl
           newUrl == e.href
       IN IF previousUrl # newUrl
            THEN callback([e EXCEPT !.currentUrl = newUrl], newUrl, previousUrl)
            ELSE e

\* The wrapper without `currentUrl = newUrl`.
wrapHistoryMethodStale(e, previousUrl) ==
  IF ~e.isListening THEN e
  ELSE LET newUrl == e.href
       IN IF previousUrl # newUrl
            THEN callback(e, newUrl, previousUrl)
            ELSE e

\* The wrapper without the `previousUrl !== newUrl` comparison.
wrapHistoryMethodAlways(e, previousUrl) ==
  IF ~e.isListening THEN e
  ELSE LET newUrl == e.href
       IN callback([e EXCEPT !.currentUrl = newUrl], newUrl, previousUrl)

\* The wrapper without the `if (!isListening) return result` check.
wrapHistoryMethodNoFlag(e, previousUrl) ==
  LET newUrl == e.href
  IN IF previousUrl # newUrl
       THEN callback([e EXCEPT !.currentUrl = newUrl], newUrl, previousUrl)
       ELSE e

\* The wrapper returned by wrapHistoryMethod, after originalMethod.apply has
\* returned: previousUrl was read before the original call, e is the
\* environment the original call left.
wrapHistoryMethod(e, previousUrl) ==
  IF ~e.isListening THEN e
  ELSE LET newUrl == e.href
       IN IF previousUrl # newUrl
            THEN callback([e EXCEPT !.currentUrl = newUrl], newUrl, previousUrl)
            ELSE e

\* disconnect that restores pushState and forgets replaceState.
disconnectPushStateOnly(e) ==
  [e EXCEPT !.isListening = FALSE,
            !.popstate = FALSE,
            !.pushState = e.originalPushState]

\* disconnect: the cleanup function listenUrlChange returns.
disconnect(e) ==
  [e EXCEPT !.isListening = FALSE,
            !.popstate = FALSE,
            !.pushState = e.originalPushState,
            !.replaceState = e.originalReplaceState]

\* A call of the disposer, observed: disconnect has returned.
Dispose(e) == [disconnect(e) EXCEPT !.disposals = @ + 1]

\* listenUrlChange(callback): reads the URL, captures the installed entry
\* points, installs the wrappers and the popstate listener.
listenUrlChange(e) ==
  [e EXCEPT !.currentUrl = e.href,
            !.isListening = TRUE,
            !.originalPushState = e.pushState,
            !.originalReplaceState = e.replaceState,
            !.pushState = Append(e.pushState, "wrapped"),
            !.replaceState = Append(e.replaceState, "wrapped"),
            !.popstate = TRUE]

(***************************************************************************)
(* Apply(f, url, e, hook): one call f(state, title, url) in environment e. *)
(* The browser's own function sets the URL.  A wrapper built by            *)
(* wrapHistoryMethod reads currentUrl, calls the function it wraps, then   *)
(* compares.  A third-party wrapper calls the function it wraps and then   *)
(* runs its own code, which (hook) may call the disposer.                  *)
(***************************************************************************)
RECURSIVE Apply(_, _, _, _)
Apply(f, url, e, hook) ==
  LET layer == f[Len(f)]
      inner == SubSeq(f, 1, Len(f) - 1)
  IN CASE layer = "wrapped" ->
            LET previousUrl == e.currentUrl
            IN wrapHistoryMethod(Apply(inner, url, e, hook), previousUrl)
       [] layer = "foreign" ->
            LET e1 == Apply(inner, url, e, hook)
            IN IF hook THEN Dispose(e1) ELSE e1
       [] OTHER -> [e EXCEPT !.href = url]

\* The browser moves to another history entry and dispatches popstate.
Traverse(url, e) ==
  LET e1 == [e EXCEPT !.href = url]
  IN IF e1.popstate THEN handlePopState(e1) ELSE e1

IsWrapped(f) == \E i \in 1..Len(f) : f[i] = "wrapped"
HasForeign(f) == \E i \in 1..Len(f) : f[i] = "foreign"

\* What a history event did, as an observer of the page saw it.
Observed(kind, f, e, e1) ==
  [kind |-> kind, from |-> e.href, to |-> e1.href,
   listening |-> e.isListening, wrapped |-> IsWrapped(f),
   fired |-> e1.fired,
   disposedDuring |-> e1.disposals > e.disposals,
   stillListening |-> e1.isListening]

(***************************************************************************)
(* The remote client (@senditly/web).                                      *)
(***************************************************************************)
BadRequest == 400       \* new APIError(400, ...): the request failed validation
InternalError == 500    \* new APIError(500, ...): fetch or JSON parsing threw

\* What fetch does with a request: it answers with an HTTP status, or throws.
Responses == {[threw |-> FALSE, status |-> 200],
              [threw |-> FALSE, status |-> 503],
              [threw |-> TRUE, status |-> 0]}

NoResponse == [threw |-> FALSE, status |-> 0]   \* fetch has not settled yet

\* Response.ok
ok(resp) == resp.status >= 200 /\ resp.status <= 299

\* _request without the `if (!response.ok)` branch: an error status
\* fulfils the promise.
requestIgnoringStatus(resp) ==
  IF resp.threw THEN [state |-> "rejected", code |-> InternalError]
  ELSE [state |-> "fulfilled", code |-> 0]

\* APIResource._request, once fetch has settled with resp: how the
\* APIPromise settles.
request(resp) ==
  IF resp.threw THEN [state |-> "rejected", code |-> InternalError]
  ELSE IF ~ok(resp) THEN [state |-> "rejected", code |-> resp.status]
  ELSE [state |-> "fulfilled", code |-> 0]

\* identify/track without the safeParse check: every request is posted.
validatedNever(valid) == [thrown |-> FALSE, code |-> 0]

\* SessionAPI.identify / EventAPI.track up to the return: safeParse, then
\* either a synchronous throw of APIError(400) or one request handed to
\* fetch by _post.
validated(valid) ==
  IF ~valid THEN [thrown |-> TRUE, code |-> BadRequest]
  ELSE [thrown |-> FALSE, code |-> 0]

(***************************************************************************)
(* SenditlyTag.                                                            *)
(***************************************************************************)
\* initSession, run synchronously by the constructor up to its first await:
\* whether session.start was called, and the state of the promise returned.
initSession(bot) ==
  IF bot THEN [start |-> FALSE, promise |-> "fulfilled"]
  ELSE [start |-> TRUE, promise |-> "pending"]

\* waitForReady without `await this._waitForInit`.
waitForReadyNoAwait(bot, promise, failed) ==
  IF bot THEN "false"
  ELSE IF failed THEN "false"
  ELSE "true"

\* waitForReady without the `if (this._isBot)` return.
waitForReadyNoBotCheck(bot, promise, failed) ==
  IF promise = "pending" THEN "wait"
  ELSE IF failed THEN "false"
  ELSE "true"

\* waitForReady without the `if (this._initFailed)` return.
waitForReadyNoFailedCheck(bot, promise, failed) ==
  IF bot THEN "false"
  ELSE IF promise = "pending" THEN "wait"
  ELSE "true"

\* waitForReady: "wait" while the caller stays suspended at
\* `await this._waitForInit`, else the boolean it resolves to.
waitForReady(bot, promise, failed) ==
  IF bot THEN "false"
  ELSE IF promise = "pending" THEN "wait"
  ELSE IF failed THEN "false"
  ELSE "true"

\* A call of identify/track/page, suspended at `await this.waitForReady()`.
\* src: "construct" (the constructor's page()), "nav" (the watcher's
\* callback) or "call" (the public method, called by the host page or by a
\* plugin).  url is the page URL when page() was called.
NewOp(kind, src, valid, url) ==
  [kind |-> kind, src |-> src, valid |-> valid, url |-> url,
   stage |-> "gate", error |-> 0]

api(kind) == IF kind = "identify" THEN "identify" ELSE "track"

StartRequest == [api |-> "start", op |-> 0, url |-> "", resp |-> NoResponse]

\* The gate as `await this.initSession()` instead of the stored promise:
\* every call that passes the gate starts a session of its own.
afterGateStartingAgain(op, i, ready, reqs, url) ==
  IF ready = "false"
    THEN [op |-> [op EXCEPT !.stage = "resolved"], requests |-> reqs]
  ELSE LET v == validated(op.kind = "page" \/ op.valid)
       IN IF v.thrown
            THEN [op |-> [op EXCEPT !.stage = "rejected", !.error = v.code],
                  requests |-> Append(reqs, StartRequest)]
            ELSE [op |-> [op EXCEPT !.stage = "inflight"],
                  requests |-> Append(Append(reqs, StartRequest),
                     [api |-> api(op.kind), op |-> i,
                      url |-> IF op.kind = "page" THEN url ELSE "",
                      resp |-> NoResponse])]

\* The part of identify/track/page after `await this.waitForReady()`.
\* ready is what waitForReady resolved to; the result is the call's record
\* and the requests handed to fetch.
afterGate(op, i, ready, reqs, url) ==
  IF ready = "false"
    THEN [op |-> [op EXCEPT !.stage = "resolved"], requests |-> reqs]
  ELSE LET v == validated(op.kind = "page" \/ op.valid)
       IN IF v.thrown
            THEN [op |-> [op EXCEPT !.stage = "rejected", !.error = v.code],
                  requests |-> reqs]
            ELSE [op |-> [op EXCEPT !.stage = "inflight"],
                  requests |-> Append(reqs,
                     [api |-> api(op.kind), op |-> i,
                      url |-> IF op.kind = "page" THEN url ELSE "",
                      resp |-> NoResponse])]

\* The `await this._client...` of identify/track/page once the APIPromise
\* has settled.
afterRequest(op, resp) ==
  LET r == request(resp)
  IN IF r.state = "fulfilled"
       THEN [op EXCEPT !.stage = "resolved"]
       ELSE [op EXCEPT !.stage = "rejected", !.error = r.code]

\* The requests handed to fetch by call i (op = 0: by initSession).
RequestsOf(i) == {k \in 1..Len(requests) : requests[k].op = i}

\* fetch settles the requests of call i with resp.
Answered(i, resp) ==
  [k \in 1..Len(requests) |->
     IF requests[k].op = i /\ requests[k].resp = NoResponse
       THEN [requests[k] EXCEPT !.resp = resp] ELSE requests[k]]

\* initSession after `await this._client.session.start({}).catch(...)`:
\* the catch handler sets _initFailed and the promise is fulfilled.
sessionSettled(resp) ==
  [promise |-> "fulfilled", failed |-> request(resp).state = "rejected"]

(***************************************************************************)
(* JavaScript values that cross the plugins: a value is a record of its    *)
(* typeof-like tag and its content.  An object's content is the function   *)
(* from its own property names to their values.                            *)
(***************************************************************************)
Undefined == [type |-> "undefined", value |-> ""]
Str(s) == [type |-> "string", value |-> s]
Bool(b) == [type |-> "boolean", value |-> b]
Num(n) == [type |-> "number", value |-> n]
Arr(q) == [type |-> "array", value |-> q]
Obj(f) == [type |-> "object", value |-> f]
NoProps == [k \in {} |-> Undefined]

\* if (v): undefined, "", false and 0 are falsy.
truthy(v) ==
  CASE v.type = "undefined" -> FALSE
    [] v.type = "string" -> v.value # ""
    [] v.type = "boolean" -> v.value
    [] v.type = "number" -> v.value # 0
    [] OTHER -> TRUE

\* a === b for the values used here (objects are compared by content: no
\* two distinct objects with the same content are in play).
StrictEq(a, b) == a.type = b.type /\ a.value = b.value

\* v[k] where v is not undefined: an absent property reads as undefined.
Get(v, k) ==
  IF v.type = "object" /\ k \in DOMAIN v.value THEN v.value[k] ELSE Undefined

\* v?.[k]
OptGet(v, k) == IF v.type = "undefined" THEN Undefined ELSE Get(v, k)

\* The property key a value is converted to.
Key(v) == IF v.type = "string" THEN v.value ELSE "undefined"

\* a ?? b
Coalesce(a, b) == IF a.type = "undefined" THEN b ELSE a

\* args[i - 1] of a rest-parameter array (1-based here).
At(args, i) == IF i <= Len(args) THEN args[i] ELSE Undefined

(***************************************************************************)
(* The plugins: KartePlugin and SegmentPlugin.                             *)
(***************************************************************************)
DefaultTimeout == 10000   \* options.timeout ?? 10000
RetryTimeout == 5000      \* retryUntil(condition, timeout = 5000)
Interval == 100           \* setTimeout(resolve, 100)

\* An options argument is the function from the properties the caller wrote
\* to their values; a property written as undefined is in its domain.
Opt(options, k) == IF k \in DOMAIN options THEN options[k] ELSE Undefined

\* new KartePlugin(options): { timeout: options.timeout ?? 10000, ...options }
KartePlugin(options) ==
  [variant |-> "karte",
   options |-> options @@
     [timeout |-> Coalesce(Opt(options, "timeout"), Num(DefaultTimeout))]]

\* new SegmentPlugin(options): the three defaults, then ...options.
SegmentPlugin(options) ==
  [variant |-> "segment",
   options |-> options @@
     [timeout |-> Coalesce(Opt(options, "timeout"), Num(DefaultTimeout)),
      emailFieldName |->
        Coalesce(Opt(options, "emailFieldName"), Str("email")),
      propertiesFieldNames |->
        Coalesce(Opt(options, "propertiesFieldNames"), Arr(<<>>))]]

NoPlugin == [variant |-> "none", options |-> NoProps]

\* The timeout retryUntil works with: its parameter defaults when
\* this.options.timeout is undefined.
Timeout(p) ==
  IF p.options.timeout.type = "undefined"
    THEN RetryTimeout ELSE p.options.timeout.value

\* Third-party globals.  window.krt and tracker.track are function values
\* (chains of layers); NoFunction stands for an absent one.
NativeKrt == <<"krt">>
NativeTrack == <<"track">>
NoTracker == [present |-> FALSE, track |-> NoFunction]
NoAnalytics ==
  [present |-> FALSE, addSourceMiddleware |-> FALSE, middlewares |-> 0]
OriginalReturn == Str("returned")   \* what the third party's own function returns

\* One synchronous call: whether it threw, what it returned, and the calls
\* it made of the third party's original function, of tag.identify and of
\* next, in order.
Returns(v, effects) == [threw |-> FALSE, returned |-> v, effects |-> effects]
Throws(effects) == [threw |-> TRUE, returned |-> Undefined, effects |-> effects]
NoOutcome == [target |-> "none", args |-> <<>>, threw |-> FALSE,
              returned |-> Undefined, effects |-> <<>>]

\* The calls a wrapper makes.  Call: of the function it wraps, or of next;
\* Forward: of tag.identify, caught telling whether a .catch handler is put
\* on the promise it returns.
Call(fn, args) == [fn |-> fn, args |-> args, caught |-> FALSE]
Forward(args, caught) == [fn |-> "identify", args |-> args, caught |-> caught]

RECURSIVE Invoke(_, _)

\* The v2 wrapper installed on window.krt, without the test of value.email.
krtProxyForwardingAll(f, args) ==
  LET karteTagV2 == SubSeq(f, 1, Len(f) - 1)
      name == At(args, 2)
      value == At(args, 3)
  IN IF Len(args) = 0 THEN Invoke(karteTagV2, args)
     ELSE IF ~StrictEq(At(args, 1), Str("send")) THEN Invoke(karteTagV2, args)
     ELSE IF ~StrictEq(name, Str("identify")) THEN Invoke(karteTagV2, args)
     ELSE IF value.type = "undefined" THEN Throws(<<>>)
     ELSE LET r == Invoke(karteTagV2, <<Str("send"), name, value>>)
          IN IF r.threw THEN r
             ELSE Returns(Undefined,
                    r.effects \o <<Forward(<<Get(value, "email")>>, FALSE)>>)

\* The v2 wrapper installed on window.krt: function (...args) { ... }.
\* f is the wrapper's chain, so karteTagV2 is f without its last layer.
krtProxy(f, args) ==
  LET karteTagV2 == SubSeq(f, 1, Len(f) - 1)
      name == At(args, 2)
      value == At(args, 3)
  IN IF Len(args) = 0 THEN Invoke(karteTagV2, args)
     ELSE IF ~StrictEq(At(args, 1), Str("send")) THEN Invoke(karteTagV2, args)
     ELSE IF ~StrictEq(name, Str("identify")) THEN Invoke(karteTagV2, args)
     \* value.email: a TypeError when value is undefined
     ELSE IF value.type = "undefined" THEN Throws(<<>>)
     ELSE IF ~truthy(Get(value, "email")) THEN Invoke(karteTagV2, args)
     ELSE LET r == Invoke(karteTagV2, <<Str("send"), name, value>>)
          IN IF r.threw THEN r
             ELSE Returns(Undefined,
                    r.effects \o <<Forward(<<Get(value, "email")>>, FALSE)>>)

\* The v1 wrapper installed on tracker.track: function (name, value) { ... }.
trackProxy(f, args) ==
  LET originalTrack == SubSeq(f, 1, Len(f) - 1)
      name == At(args, 1)
      value == At(args, 2)
  IN IF ~StrictEq(name, Str("identify"))
       THEN Invoke(originalTrack, <<name, value>>)
     ELSE IF value.type = "undefined" THEN Throws(<<>>)
     ELSE IF ~truthy(Get(value, "email"))
       THEN Invoke(originalTrack, <<name, value>>)
     ELSE LET r == Invoke(originalTrack, <<name, value>>)
          IN IF r.threw THEN r
             ELSE Returns(Undefined,
                    r.effects \o <<Forward(<<Get(value, "email")>>, FALSE)>>)

\* f(...args) for a function value f of the third party.
Invoke(f, args) ==
  LET layer == f[Len(f)]
  IN CASE layer = "krtProxy" -> krtProxy(f, args)
       [] layer = "trackProxy" -> trackProxy(f, args)
       [] OTHER -> Returns(OriginalReturn, <<Call(layer, args)>>)

\* proxyKarteTag(tag) on a page whose globals are w.krt and w.tracker.
proxyKarteTag(w) ==
  IF w.krt # NoFunction
    THEN [w EXCEPT !.result = TRUE, !.krt = Append(w.krt, "krtProxy")]
  ELSE IF w.tracker.present
    THEN IF w.tracker.track = NoFunction
           THEN [w EXCEPT !.result = FALSE]
           ELSE [w EXCEPT !.result = TRUE,
                          !.tracker.track = Append(w.tracker.track, "trackProxy")]
  ELSE [w EXCEPT !.result = FALSE]

\* addMiddleware(tag, options) on a page whose window.analytics is
\* w.analytics.
addMiddleware(w) ==
  IF ~w.analytics.present \/ ~w.analytics.addSourceMiddleware
    THEN [w EXCEPT !.result = FALSE]
    ELSE [w EXCEPT !.result = TRUE,
                   !.analytics.middlewares = w.analytics.middlewares + 1]

\* The payload Segment hands to a source middleware for an event.
Payload(event) == Obj([obj |-> Obj([context |-> Obj([event |-> event])])])

\* The properties the middleware forwards: the reduce over
\* options.propertiesFieldNames.
properties(names, traits) ==
  LET kept == {k \in {names[i] : i \in 1..Len(names)} :
                 truthy(OptGet(traits, k))}
  IN Obj([k \in kept |-> Get(traits, k)])

\* The source middleware registered by addMiddleware:
\* ({ payload, next }) => { ... }.
middleware(options, payload) ==
  LET event == Get(Get(Get(payload, "obj"), "context"), "event")
      traits == Get(event, "traits")
      email == OptGet(traits, Key(options.emailFieldName))
  IN IF event.type = "undefined" THEN Throws(<<>>)
     ELSE IF StrictEq(Get(event, "type"), Str("identify")) /\ truthy(email)
       \* options.propertiesFieldNames.reduce: a TypeError when undefined
       THEN IF options.propertiesFieldNames.type = "undefined"
              THEN Throws(<<>>)
              ELSE Returns(Undefined,
                     <<Forward(<<Obj([email |-> email,
                                      properties |->
                                        properties(
                                          options.propertiesFieldNames.value,
                                          traits)])>>, TRUE),
                       Call("next", <<payload>>)>>)
     ELSE Returns(Undefined, <<Call("next", <<payload>>)>>)

\* sessionIdentifyRequestSchema.safeParse(event).success for the argument a
\* plugin passes to tag.identify: an object whose email is a well-formed
\* address (properties, when present, is an object).
Emails == {"a@b.com", "x@y.com"}
validIdentify(event) ==
  /\ event.type = "object"
  /\ Get(event, "email").type = "string"
  /\ Get(event, "email").value \in Emails

\* The state a plugin works on: the instance, the clock, its polling loops
\* and the third-party globals.  result holds what condition() returned.
PluginEnv ==
  [plugin |-> plugin, now |-> now, pollers |-> pollers, console |-> console,
   krt |-> krt, tracker |-> tracker, analytics |-> analytics,
   result |-> FALSE]

\* A page without plugin and without third-party globals, at time 0.
Idle ==
  [plugin |-> NoPlugin, now |-> 0, pollers |-> <<>>, console |-> <<>>,
   krt |-> NoFunction, tracker |-> NoTracker, analytics |-> NoAnalytics,
   result |-> FALSE]

\* The condition init hands to retryUntil.
condition(e) ==
  IF e.plugin.variant = "karte" THEN proxyKarteTag(e) ELSE addMiddleware(e)

\* Date.now() - startTime > timeout that never holds.
timedOutNever(startTime, t, timeout) == FALSE

\* Date.now() - startTime > timeout
timedOut(startTime, t, timeout) == t - startTime > timeout

\* retryUntil from the test of its while loop: the loop ends when
\* condition() holds, else the call suspends on setTimeout(resolve, 100).
poll(e, i) ==
  LET c == condition(e)
  IN [c EXCEPT !.pollers[i].state = IF c.result THEN "done" ELSE "sleeping",
               !.pollers[i].since = e.now]

\* plugin.init(tag): retryUntil runs up to its first await; the promise it
\* returns gets the catch handler.
init(e) ==
  poll([e EXCEPT !.pollers =
          Append(@, [startTime |-> e.now, since |-> e.now,
                     state |-> "sleeping"])],
       Len(e.pollers) + 1)

\* retryUntil of poller i resumes after its sleep: it throws on timeout,
\* which init's catch handler reports with console.error, else it tests the
\* condition again.
resume(e, i) ==
  IF timedOut(e.pollers[i].startTime, e.now, Timeout(e.plugin))
    THEN [e EXCEPT !.pollers[i].state = "failed",
                   !.console = Append(@, [poller |-> i,
                                          message |-> "Failed to proxy"])]
    ELSE poll(e, i)

\* The page has something the plugin can wrap or register with: window.krt,
\* tracker.track or analytics.addSourceMiddleware.
Usable(k, t, a) ==
  k # NoFunction \/ t.track # NoFunction \/ a.addSourceMiddleware

\* loadedAt after a script defined a global, leaving the page with k, t, a.
Arrival(k, t, a) == IF loadedAt = -1 /\ Usable(k, t, a) THEN now ELSE loadedAt

PluginCommit(e) ==
  /\ plugin' = e.plugin
  /\ now' = e.now
  /\ pollers' = e.pollers
  /\ console' = e.console
  /\ krt' = e.krt
  /\ tracker' = e.tracker
  /\ analytics' = e.analytics

PluginInstall(e) ==
  /\ plugin = e.plugin
  /\ now = e.now
  /\ pollers = e.pollers
  /\ console = e.console
  /\ krt = e.krt
  /\ tracker = e.tracker
  /\ analytics = e.analytics

(***************************************************************************)
(* Initial states.                                                         *)
(***************************************************************************)
\* A page with no watcher: the entry points as the browser ships them.
Page0(url) ==
  [href |-> url, pushState |-> NativePushState,
   replaceState |-> NativeReplaceState, popstate |-> FALSE,
   currentUrl |-> "", isListening |-> FALSE,
   originalPushState |-> NoFunction, originalReplaceState |-> NoFunction,
   fired |-> <<>>, disposals |-> 0, late |-> 0]

Commit(e) ==
  /\ href' = e.href
  /\ pushState' = e.pushState
  /\ replaceState' = e.replaceState
  /\ popstate' = e.popstate
  /\ currentUrl' = e.currentUrl
  /\ isListening' = e.isListening
  /\ originalPushState' = e.originalPushState
  /\ originalReplaceState' = e.originalReplaceState
  /\ disposals' = e.disposals
  /\ late' = e.late

Install(e) ==
  /\ href = e.href
  /\ pushState = e.pushState
  /\ replaceState = e.replaceState
  /\ popstate = e.popstate
  /\ currentUrl = e.currentUrl
  /\ isListening = e.isListening
  /\ originalPushState = e.originalPushState
  /\ originalReplaceState = e.originalReplaceState
  /\ calls = <<>>
  /\ disposals = e.disposals
  /\ late = e.late

\* new SenditlyTag(config) on a page at url: isBot(), initSession(), then
\* (autoTrackPageView !== false) page() and listenUrlChange.
constructor(bot, autoTrackPageView, url) ==
  LET s == initSession(bot)
  IN /\ tag = "constructed"
     /\ isBot = bot
     /\ waitForInit = s.promise
     /\ initFailed = FALSE
     /\ requests = IF s.start THEN <<StartRequest>> ELSE <<>>
     /\ ops = IF autoTrackPageView
                THEN <<NewOp("page", "construct", TRUE, url)>> ELSE <<>>
     /\ owner = IF autoTrackPageView THEN "tag" ELSE "none"
     /\ before = IF autoTrackPageView
                   THEN [pushState |-> NativePushState,
                         replaceState |-> NativeReplaceState]
                   ELSE NoFunctions
     /\ Install(IF autoTrackPageView THEN listenUrlChange(Page0(url))
                ELSE Page0(url))

Init ==
  /\ \E bot \in BOOLEAN, autoTrackPageView \in BOOLEAN :
       constructor(bot, autoTrackPageView, "/a")
  /\ last = NoEvent
  /\ events = 0
  /\ patches = 0
  /\ PluginInstall(Idle)
  /\ forwards = <<>>
  /\ outcome = NoOutcome
  /\ loadedAt = -1

\* The watcher used on its own: no tag on the page, listenUrlChange not yet
\* called.
WatcherInit ==
  /\ tag = "none"
  /\ isBot = FALSE
  /\ waitForInit = "fulfilled"
  /\ initFailed = FALSE
  /\ requests = <<>>
  /\ ops = <<>>
  /\ owner = "none"
  /\ before = NoFunctions
  /\ Install(Page0("/a"))
  /\ last = NoEvent
  /\ events = 0
  /\ patches = 0
  /\ PluginInstall(Idle)
  /\ forwards = <<>>
  /\ outcome = NoOutcome
  /\ loadedAt = -1

(***************************************************************************)
(* Actions of the tag.                                                     *)
(***************************************************************************)
\* tag.identify(event), called by the host page or forwarded by a plugin
\* (both go through this one public method); valid: the event passes
\* sessionIdentifyRequestSchema.  The call runs up to its first await.
Identify(valid) ==
  /\ tag = "constructed"
  /\ Len(ops) < MaxOps
  /\ ops' = Append(ops, NewOp("identify", "call", valid, ""))
  /\ UNCHANGED <<tag, isBot, waitForInit, initFailed, requests>>
  /\ UNCHANGED <<winVars, obsVars, logVars, plugVars>>

\* tag.track(event); valid: the event passes eventTrackRequestSchema.
Track(valid) ==
  /\ tag = "constructed"
  /\ Len(ops) < MaxOps
  /\ ops' = Append(ops, NewOp("track", "call", valid, ""))
  /\ UNCHANGED <<tag, isBot, waitForInit, initFailed, requests>>
  /\ UNCHANGED <<winVars, obsVars, logVars, plugVars>>

\* tag.page(), called by the host page.
Page ==
  /\ tag = "constructed"
  /\ Len(ops) < MaxOps
  /\ ops' = Append(ops, NewOp("page", "call", TRUE, href))
  /\ UNCHANGED <<tag, isBot, waitForInit, initFailed, requests>>
  /\ UNCHANGED <<winVars, obsVars, logVars, plugVars>>

\* The session-start request settles with resp.
SessionSettle(resp) ==
  /\ tag = "constructed"
  /\ waitForInit = "pending"
  /\ LET s == sessionSettled(resp)
     IN /\ waitForInit' = s.promise
        /\ initFailed' = s.failed
  /\ requests' = Answered(0, resp)
  /\ UNCHANGED <<tag, isBot, ops>>
  /\ UNCHANGED <<winVars, obsVars, logVars, plugVars>>

\* Resume with the calls suspended on the promise continuing in any order.
ResumeAnyOrder(i) ==
  /\ i \in 1..Len(ops)
  /\ ops[i].stage = "gate"
  /\ LET ready == waitForReady(isBot, waitForInit, initFailed)
     IN /\ ready # "wait"
        /\ LET r == afterGate(ops[i], i, ready, requests, href)
           IN /\ ops' = [ops EXCEPT ![i] = r.op]
              /\ requests' = r.requests
  /\ UNCHANGED <<tag, isBot, waitForInit, initFailed>>
  /\ UNCHANGED <<winVars, obsVars, logVars, plugVars>>

\* Call i resumes from `await this.waitForReady()`.  Calls suspended on the
\* same promise resume in the order they were made.
Resume(i) ==
  /\ i \in 1..Len(ops)
  /\ ops[i].stage = "gate"
  /\ \A j \in 1..(i - 1) : ops[j].stage # "gate"
  /\ LET ready == waitForReady(isBot, waitForInit, initFailed)
     IN /\ ready # "wait"
        /\ LET r == afterGate(ops[i], i, ready, requests, href)
           IN /\ ops' = [ops EXCEPT ![i] = r.op]
              /\ requests' = r.requests
  /\ UNCHANGED <<tag, isBot, waitForInit, initFailed>>
  /\ UNCHANGED <<winVars, obsVars, logVars, plugVars>>

\* The request of call i settles with resp.
Respond(i, resp) ==
  /\ i \in 1..Len(ops)
  /\ ops[i].stage = "inflight"
  /\ ops' = [ops EXCEPT ![i] = afterRequest(ops[i], resp)]
  /\ requests' = Answered(i, resp)
  /\ UNCHANGED <<tag, isBot, waitForInit, initFailed>>
  /\ UNCHANGED <<winVars, obsVars, logVars, plugVars>>

(***************************************************************************)
(* Actions of the page: history events, with the watcher's callback.       *)
(***************************************************************************)
\* Subscriber with a callback that does not call page().
SubscriberDropping(e) ==
  /\ ops' = ops
  /\ calls' = calls

\* The subscriber.  The tag's callback is () => this.page(): each
\* invocation makes one call of page(), at the URL the page then has.  The
\* host page's own callback is recorded in calls.
Subscriber(e) ==
  IF owner = "tag"
    THEN /\ Len(ops) + Len(e.fired) <= MaxOps
         /\ ops' = ops \o [k \in 1..Len(e.fired) |->
                              NewOp("page", "nav", TRUE, e.fired[k][1])]
         /\ calls' = calls
    ELSE /\ ops' = ops
         /\ calls' = calls \o e.fired

\* On a page without a tag the host page observes each event (last, events).
HistoryEvent(kind, f, e) ==
  /\ Commit(e)
  /\ Subscriber(e)
  /\ IF tag = "none"
       THEN /\ events < MaxEvents
            /\ events' = events + 1
            /\ last' = Observed(kind, f, Env, e)
       ELSE UNCHANGED <<events, last>>
  /\ UNCHANGED <<tag, isBot, waitForInit, initFailed, requests, owner>>
  /\ UNCHANGED <<before, patches, plugVars>>

\* history.pushState(state, title, url).  hook: the code of a third-party
\* wrapper in the chain calls the disposer, which only the host page holds.
PushState(url, hook) ==
  /\ hook => (owner = "host" /\ HasForeign(pushState) /\ disposals < MaxDisposals)
  /\ HistoryEvent("pushState", pushState, Apply(pushState, url, Env, hook))

\* history.replaceState(state, title, url).
ReplaceState(url, hook) ==
  /\ hook =>
       (owner = "host" /\ HasForeign(replaceState) /\ disposals < MaxDisposals)
  /\ HistoryEvent("replaceState", replaceState,
                  Apply(replaceState, url, Env, hook))

\* Back/forward: the browser moves to an entry at url and fires popstate.
PopState(url) ==
  /\ url \in Urls
  /\ HistoryEvent("popstate", NoFunction, Traverse(url, Env))

\* The host page calls listenUrlChange(callback).
Listen ==
  /\ tag = "none"
  /\ owner = "none"
  /\ Commit(listenUrlChange(Env))
  /\ owner' = "host"
  /\ before' = [pushState |-> pushState, replaceState |-> replaceState]
  /\ UNCHANGED <<tagVars, plugVars, calls, last, events, patches>>

\* The host page calls the disposer.
Disconnect ==
  /\ owner = "host"
  /\ disposals < MaxDisposals
  /\ Commit(Dispose(Env))
  /\ UNCHANGED <<tagVars, plugVars, owner, calls, before, last, events, patches>>

\* Another script wraps the installed pushState / replaceState.
PatchPushState ==
  /\ patches < MaxPatches
  /\ pushState' = Foreign(pushState)
  /\ patches' = patches + 1
  /\ UNCHANGED <<tagVars, plugVars, obsVars, href, replaceState, popstate>>
  /\ UNCHANGED <<calls, before, disposals, late, last, events>>

PatchReplaceState ==
  /\ patches < MaxPatches
  /\ replaceState' = Foreign(replaceState)
  /\ patches' = patches + 1
  /\ UNCHANGED <<tagVars, plugVars, obsVars, href, pushState, popstate>>
  /\ UNCHANGED <<calls, before, disposals, late, last, events>>

(***************************************************************************)
(* Specifications.                                                         *)
(***************************************************************************)
Next ==
  \/ \E valid \in BOOLEAN : Identify(valid)
  \/ \E valid \in BOOLEAN : Track(valid)
  \/ Page
  \/ \E resp \in Responses : SessionSettle(resp)
  \/ \E i \in 1..MaxOps : Resume(i)
  \/ \E i \in 1..MaxOps, resp \in Responses : Respond(i, resp)
  \/ \E url \in TagUrls : PushState(url, FALSE)
  \/ \E url \in TagUrls : ReplaceState(url, FALSE)
  \/ \E url \in TagUrls : PopState(url)

Spec == Init /\ [][Next]_vars

WatcherNext ==
  \/ Listen
  \/ Disconnect
  \/ PatchPushState
  \/ PatchReplaceState
  \/ \E url \in Urls, hook \in BOOLEAN : PushState(url, hook)
  \/ \E url \in Urls, hook \in BOOLEAN : ReplaceState(url, hook)
  \/ \E url \in Urls : PopState(url)

WatcherSpec == WatcherInit /\ [][WatcherNext]_vars

(***************************************************************************)
(* A plugin waiting for its third-party global, checked under              *)
(* ActivationSpec: a tag constructed with one plugin, whose init may be    *)
(* called again, on a page where the global may load at any time.          *)
(***************************************************************************)
TimeoutOptions == {NoProps, [timeout |-> Num(Interval)], [timeout |-> Undefined]}

ActivationPlugins ==
  {KartePlugin(o) : o \in TimeoutOptions}
    \cup {SegmentPlugin(o) : o \in TimeoutOptions}

\* The third-party global of plugin p, loaded or not.
Globals(p, loaded) ==
  [Idle EXCEPT
     !.plugin = p,
     !.krt = IF loaded /\ p.variant = "karte" THEN NativeKrt ELSE NoFunction,
     !.analytics = IF loaded /\ p.variant = "segment"
                     THEN [present |-> TRUE, addSourceMiddleware |-> TRUE,
                           middlewares |-> 0]
                     ELSE NoAnalytics]

\* new SenditlyTag({ autoTrackPageView: false, plugins: [p] }): the
\* constructor calls p.init(this).
ActivationInit ==
  /\ constructor(FALSE, FALSE, "/a")
  /\ last = NoEvent
  /\ events = 0
  /\ patches = 0
  /\ \E p \in ActivationPlugins, loaded \in BOOLEAN :
       PluginInstall(init(Globals(p, loaded)))
  /\ forwards = <<>>
  /\ outcome = NoOutcome
  /\ loadedAt = IF Usable(krt, tracker, analytics) THEN 0 ELSE -1

\* init(tag) is called once more on the same plugin instance.
InitAgain ==
  /\ Len(pollers) < MaxInits
  /\ PluginCommit(init(PluginEnv))
  /\ UNCHANGED <<tagVars, winVars, obsVars, logVars, forwards, outcome,
               loadedAt>>

\* The timer of poller i fires: its sleep of Interval ms is over.
Timer(i) ==
  /\ i \in 1..Len(pollers)
  /\ pollers[i].state = "sleeping"
  /\ now - pollers[i].since >= Interval
  /\ PluginCommit(resume(PluginEnv, i))
  /\ UNCHANGED <<tagVars, winVars, obsVars, logVars, forwards, outcome,
               loadedAt>>

\* Time passes.
Tick ==
  /\ now < MaxTicks * Interval
  /\ now' = now + Interval
  /\ UNCHANGED <<tagVars, winVars, obsVars, logVars, forwards, outcome,
               loadedAt>>
  /\ UNCHANGED <<plugin, pollers, console, krt, tracker, analytics>>

\* The Karte v2 script defines window.krt.
LoadKrt ==
  /\ plugin.variant = "karte"
  /\ krt = NoFunction
  /\ krt' = NativeKrt
  /\ UNCHANGED <<tagVars, winVars, obsVars, logVars, forwards, outcome>>
  /\ UNCHANGED <<plugin, now, pollers, console, tracker, analytics>>
  /\ loadedAt' = Arrival(krt', tracker, analytics)

\* The Karte v1 script defines window.tracker, with its track method or, for
\* the time being, without.
LoadTracker(track) ==
  /\ plugin.variant = "karte"
  /\ tracker.track = NoFunction
  /\ tracker.present \/ track = NoFunction
  /\ tracker' = [present |-> TRUE, track |-> track]
  /\ tracker' # tracker
  /\ UNCHANGED <<tagVars, winVars, obsVars, logVars, forwards, outcome>>
  /\ UNCHANGED <<plugin, now, pollers, console, krt, analytics>>
  /\ loadedAt' = Arrival(krt, tracker', analytics)

\* The Segment snippet defines window.analytics, with addSourceMiddleware
\* or, for the time being, without.
LoadAnalytics(ready) ==
  /\ plugin.variant = "segment"
  /\ ~analytics.addSourceMiddleware
  /\ analytics.present \/ ~ready
  /\ analytics' = [analytics EXCEPT !.present = TRUE,
                                    !.addSourceMiddleware = ready]
  /\ analytics' # analytics
  /\ UNCHANGED <<tagVars, winVars, obsVars, logVars, forwards, outcome>>
  /\ UNCHANGED <<plugin, now, pollers, console, krt, tracker>>
  /\ loadedAt' = Arrival(krt, tracker, analytics')

ActivationNext ==
  \/ InitAgain
  \/ \E i \in 1..MaxInits : Timer(i)
  \/ Tick
  \/ LoadKrt
  \/ \E track \in {NoFunction, NativeTrack} : LoadTracker(track)
  \/ \E ready \in BOOLEAN : LoadAnalytics(ready)

ActivationSpec == ActivationInit /\ [][ActivationNext]_vars

(***************************************************************************)
(* An activated plugin at work, checked under PluginSpec: a tag            *)
(* constructed with one plugin on a page where the third-party global is   *)
(* already defined, so that init wraps it during construction; then the    *)
(* third party's own calls and events.                                     *)
(***************************************************************************)
WithEmail == Obj([email |-> Str("x@y.com")])
WithoutEmail == Obj([user_id |-> Str("u1")])

\* The argument lists window.krt is called with.
KrtArgs ==
  {<<>>,
   <<Str("init")>>,
   <<Str("send"), Str("view"), Obj(NoProps)>>,
   <<Str("send"), Str("identify")>>,
   <<Str("send"), Str("identify"), WithoutEmail>>,
   <<Str("send"), Str("identify"), WithEmail>>,
   <<Str("send"), Str("identify"), WithEmail, Str("extra")>>}

\* The argument lists tracker.track is called with.
TrackArgs ==
  {<<Str("view"), Obj(NoProps)>>,
   <<Str("identify")>>,
   <<Str("identify"), WithoutEmail>>,
   <<Str("identify"), WithEmail>>}

\* The events Segment passes through its source middlewares.
SegmentEvents ==
  {Obj([type |-> Str("track"),
        traits |-> Obj([email |-> Str("a@b.com")])]),
   Obj([type |-> Str("identify")]),
   Obj([type |-> Str("identify"),
        traits |-> Obj([email |-> Str("a@b.com")])]),
   Obj([type |-> Str("identify"),
        traits |-> Obj([email |-> Str("a@b.com"), plan |-> Str("pro"),
                        subscribed |-> Bool(FALSE)])]),
   Obj([type |-> Str("identify"),
        traits |-> Obj([mail |-> Str("x@y.com"), plan |-> Str("pro")])]),
   Obj([type |-> Str("identify"),
        traits |-> Obj([email |-> Str("nobody")])])}

\* The options SegmentPlugin is constructed with.
SegmentOptions ==
  {NoProps,
   [propertiesFieldNames |-> Arr(<<"plan", "subscribed">>)],
   [emailFieldName |-> Str("mail"), propertiesFieldNames |-> Arr(<<"plan">>)],
   [propertiesFieldNames |-> Undefined]}

\* The pages: Karte v2, Karte v1 or Segment, loaded before the tag.
Pages ==
  {Globals(KartePlugin(NoProps), TRUE),
   [Idle EXCEPT !.plugin = KartePlugin(NoProps),
                !.tracker = [present |-> TRUE, track |-> NativeTrack]]}
    \cup {Globals(SegmentPlugin(o), TRUE) : o \in SegmentOptions}

\* new SenditlyTag({ autoTrackPageView: false, plugins: [plugin] }).
PluginInit ==
  /\ \E bot \in BOOLEAN : constructor(bot, FALSE, "/a")
  /\ last = NoEvent
  /\ events = 0
  /\ patches = 0
  /\ \E page \in Pages : PluginInstall(init(page))
  /\ forwards = <<>>
  /\ outcome = NoOutcome
  /\ loadedAt = IF Usable(krt, tracker, analytics) THEN 0 ELSE -1

Forwarded(effects) == SelectSeq(effects, LAMBDA x : x.fn = "identify")

\* One call by the third party of its entry point target, which ran as r:
\* each tag.identify(event) it made runs up to its first await.
Deliver(target, args, r) ==
  LET fw == Forwarded(r.effects)
  IN /\ Len(ops) + Len(fw) <= MaxOps
     /\ ops' = ops \o [k \in 1..Len(fw) |->
                         NewOp("identify", "call",
                               validIdentify(fw[k].args[1]), "")]
     /\ forwards' = forwards \o [k \in 1..Len(fw) |-> fw[k].caught]
     /\ outcome' = [target |-> target, args |-> args, threw |-> r.threw,
                    returned |-> r.returned, effects |-> r.effects]
     /\ UNCHANGED <<tag, isBot, waitForInit, initFailed, requests>>
     /\ UNCHANGED <<winVars, obsVars, logVars>>
     /\ UNCHANGED <<plugin, now, pollers, console, krt, tracker, analytics,
                   loadedAt>>

\* The Karte v2 script, or the host page, calls window.krt(...args).
KrtCall(args) ==
  /\ krt # NoFunction
  /\ Deliver("krt", args, Invoke(krt, args))

\* The Karte v1 script, or the host page, calls tracker.track(...args).
TrackCall(args) ==
  /\ tracker.track # NoFunction
  /\ Deliver("track", args, Invoke(tracker.track, args))

\* Segment runs the registered source middleware on an event.
SegmentEvent(event) ==
  /\ analytics.middlewares > 0
  /\ Deliver("middleware", <<Payload(event)>>,
             middleware(plugin.options, Payload(event)))

PluginNext ==
  \/ \E args \in KrtArgs : KrtCall(args)
  \/ \E args \in TrackArgs : TrackCall(args)
  \/ \E event \in SegmentEvents : SegmentEvent(event)
  \/ \E resp \in Responses : SessionSettle(resp)
  \/ \E i \in 1..MaxOps : Resume(i)
  \/ \E i \in 1..MaxOps, resp \in Responses : Respond(i, resp)

PluginSpec == PluginInit /\ [][PluginNext]_vars

(***************************************************************************)
(* Properties of the tag, checked under Spec.                              *)
(***************************************************************************)
Ops == 1..Len(ops)
Failure(resp) == resp # NoResponse /\ (resp.threw \/ ~ok(resp))
SessionReady == ~isBot /\ waitForInit = "fulfilled" /\ ~initFailed

\* C1: for a non-automated visitor the tag issues exactly one session-start
\* request, whatever calls of identify, track and page were made and
\* whether they were made before or after that request settled.
C1_OneSessionStart ==
  ~isBot => Cardinality({k \in 1..Len(requests) : requests[k].api = "start"}) = 1

\* The three kinds of call have each sent their request, on one session.
C1_Witness ==
  /\ ~isBot
  /\ \E i \in Ops : ops[i].kind = "identify" /\ RequestsOf(i) # {}
  /\ \E i \in Ops : ops[i].kind = "track" /\ RequestsOf(i) # {}
  /\ \E i \in Ops : ops[i].kind = "page" /\ RequestsOf(i) # {}

\* C2: no identify or track request (page views included) is handed to the
\* remote client while the session is uninitialized or initializing: each is
\* issued after the session-start request, and only once that has settled.
C2_NoRequestBeforeSessionSettles ==
  \A k \in 1..Len(requests) :
    requests[k].api # "start" =>
      /\ waitForInit = "fulfilled"
      /\ requests[1].api = "start"
      /\ requests[1].resp # NoResponse
      /\ k > 1

\* An identify request and a page-view request are out, the second one from
\* a call made by the watcher.
C2_Witness ==
  /\ \E k \in 1..Len(requests) : requests[k].api = "identify"
  /\ \E k \in 1..Len(requests) :
       requests[k].api = "track" /\ ops[requests[k].op].src = "nav"

\* C3: for a visitor classified as automated nothing reaches the remote
\* client (no session start, no identify, no track), and no call of
\* identify, track or page is rejected or left waiting for the session.
C3_AutomatedVisitorSendsNothing ==
  isBot =>
    /\ requests = <<>>
    /\ \A i \in Ops : ops[i].stage \in {"gate", "resolved"} /\ ops[i].error = 0
    /\ waitForReady(isBot, waitForInit, initFailed) = "false"

\* An automated visitor: an identify, the constructor's page view and a page
\* view after a navigation have all resolved.
C3_Witness ==
  /\ isBot
  /\ \E i \in Ops : ops[i].kind = "identify" /\ ops[i].stage = "resolved"
  /\ \E i \in Ops : ops[i].src = "construct" /\ ops[i].stage = "resolved"
  /\ \E i \in Ops : ops[i].src = "nav" /\ ops[i].stage = "resolved"

\* C4: if the session-start request fails, no identify or track request
\* reaches the remote client and no call of identify, track or page is
\* rejected: each one, made before or after the failure, resolves.
C4_FailedSessionSendsNothing ==
  (Len(requests) > 0 /\ requests[1].api = "start" /\ Failure(requests[1].resp)) =>
    /\ Len(requests) = 1
    /\ \A i \in Ops : ops[i].stage \in {"gate", "resolved"} /\ ops[i].error = 0
    /\ waitForReady(isBot, waitForInit, initFailed) = "false"

\* The session start failed and a full run of calls has resolved.
C4_Witness ==
  /\ Len(requests) > 0 /\ Failure(requests[1].resp)
  /\ Len(ops) = MaxOps
  /\ \A i \in Ops : ops[i].stage = "resolved"
  /\ \E i \in Ops : ops[i].kind = "identify"
  /\ \E i \in Ops : ops[i].kind = "track"

C6_RemoteErrorSurfacesOnce ==
  /\ \A i \in Ops : Cardinality(RequestsOf(i)) <= 1
  /\ \A k \in 1..Len(requests) :
       (requests[k].api # "start" /\ Failure(requests[k].resp)) =>
         LET op == ops[requests[k].op]
         IN /\ op.stage = "rejected"
            /\ op.error # 0
            /\ ~requests[k].resp.threw => op.error = requests[k].resp.status

\* An identify and a track were each rejected by the remote client.
C6_Witness ==
  /\ SessionReady
  /\ \E k \in 1..Len(requests) :
       requests[k].api = "identify" /\ Failure(requests[k].resp)
  /\ \E k \in 1..Len(requests) :
       requests[k].api = "track" /\ Failure(requests[k].resp)

(***************************************************************************)
(* Properties of the watcher, checked under WatcherSpec.                   *)
(***************************************************************************)
\* C7: while the watcher is listening, a URL transition from A to another
\* URL B, made by pushState, replaceState or a popstate event, invokes the
\* callback exactly once, with (B, A), and the last-known URL is B from then
\* on.
C7_OneCallbackPerTransition ==
  /\ (last.kind # "none" /\ last.listening /\ last.stillListening
        /\ last.to # last.from) =>
       /\ last.fired = << <<last.to, last.from>> >>
       /\ currentUrl = last.to
  /\ isListening => currentUrl = href

\* Two transitions in a row were notified, the second one by popstate, each
\* with the URL the page had before it.
C7_Witness ==
  /\ Len(calls) = 2
  /\ calls[2][2] = calls[1][1]
  /\ calls[2][1] # calls[1][2]
  /\ last.kind = "popstate"
  /\ last.fired # <<>>
  /\ isListening

\* C8: a call of a wrapped pushState or replaceState that leaves the page
\* URL as it was does not invoke the callback.
C8_NoCallbackWithoutChange ==
  (last.kind \in {"pushState", "replaceState"} /\ last.wrapped
     /\ last.to = last.from) =>
    last.fired = <<>>

\* After a notified transition, a wrapped replaceState to the URL the page
\* already has.
C8_Witness ==
  /\ last.kind = "replaceState"
  /\ last.wrapped /\ last.listening
  /\ last.to = last.from
  /\ Len(calls) = 1

\* C9: once the disposer has returned the callback is not invoked again: not
\* by a later pushState, replaceState or popstate, and not by a wrapped call
\* that had started before the disposal and completes after it.
C9_NoCallbackAfterDispose ==
  /\ late = 0
  /\ (last.kind # "none" /\ ~last.listening) => last.fired = <<>>

\* A wrapped call changed the URL, the disposer ran while the call was in
\* flight, and the callback was not invoked.
C9_Witness ==
  /\ last.kind \in {"pushState", "replaceState"}
  /\ last.wrapped /\ last.listening /\ last.disposedDuring
  /\ last.to # last.from
  /\ last.fired = <<>>

\* C10: when the disposer has been called, History.prototype.pushState and
\* History.prototype.replaceState are the very functions that were installed
\* when listenUrlChange was called.
C10_DisposerRestoresEntryPoints ==
  [][disposals' > disposals =>
       /\ pushState' = before.pushState
       /\ replaceState' = before.replaceState]_vars

\* The disposer has run on a page where another script had wrapped
\* replaceState before the watcher and pushState after it.
C10_Witness ==
  /\ disposals > 0
  /\ HasForeign(before.replaceState) /\ replaceState = before.replaceState
  /\ ~HasForeign(before.pushState) /\ pushState = before.pushState
  /\ patches = 2

\* C11: the disposer is idempotent: a second or later call writes neither
\* History.prototype.pushState nor History.prototype.replaceState, so
\* whatever is installed at that time stays installed.
C11_LaterDisposalWritesNothing ==
  [][(disposals' > disposals /\ disposals > 0) =>
       /\ pushState' = pushState
       /\ replaceState' = replaceState]_vars

(***************************************************************************)
(* Automatic page views, checked under Spec.                               *)
(***************************************************************************)
PagesFrom(src) ==
  Cardinality({i \in Ops : ops[i].kind = "page" /\ ops[i].src = src})

\* C20: with automatic page-view tracking the constructor calls page() exactly
\* once and afterwards each change of the page URL calls page() exactly once
\* and nothing else does; without it page() is never called automatically
\* and the history entry points are not wrapped.
C20_AutoPageViews ==
  /\ [](PagesFrom("construct") = IF owner = "tag" THEN 1 ELSE 0)
  /\ [](owner = "tag" => ops[1].src = "construct")
  /\ [](owner # "tag" =>
         /\ PagesFrom("nav") = 0
         /\ pushState = NativePushState
         /\ replaceState = NativeReplaceState
         /\ ~popstate)
  /\ [][owner = "tag" =>
          PagesFrom("nav")' =
            PagesFrom("nav") + IF href' # href THEN 1 ELSE 0]_vars

\* The constructor's page view followed by those of two navigations, the
\* second one back to the first URL.
C20_Witness ==
  /\ owner = "tag"
  /\ Len(ops) = 3
  /\ ops[1].src = "construct" /\ ops[2].src = "nav" /\ ops[3].src = "nav"
  /\ ops[2].url # ops[1].url
  /\ ops[3].url = ops[1].url

\* The requests of page views made from src, by their place in requests.
PageRequests(src) ==
  {k \in 1..Len(requests) :
     /\ requests[k].op > 0
     /\ ops[requests[k].op].kind = "page"
     /\ ops[requests[k].op].src = src}

\* C22: the track request of the constructor's page view is handed to the
\* remote client before the track request of any page view made for a
\* navigation, also when the navigation took place while the session was
\* being started.
C22_ConstructionPageViewFirst ==
  \A k \in PageRequests("nav") : \E j \in PageRequests("construct") : j < k

\* Both requests were issued, the constructor's first, after a navigation
\* that took place before the constructor's call had passed the gate (its
\* request carries the URL navigated to).
C22_Witness ==
  /\ PageRequests("construct") = {2}
  /\ PageRequests("nav") = {3}
  /\ requests[2].url # ops[1].url

\* C24: every page-view request carries the URL the page had when its
\* page() call was made, whatever URL changes took place while the call was
\* waiting for the session.
C24_PageViewCarriesUrlOfCall ==
  \A k \in 1..Len(requests) :
    (requests[k].op > 0 /\ ops[requests[k].op].kind = "page") =>
      requests[k].url = ops[requests[k].op].url

(***************************************************************************)
(* Properties of plugin activation, checked under ActivationSpec.          *)
(***************************************************************************)
Pollers == 1..Len(pollers)
Reports(i) == Cardinality({k \in 1..Len(console) : console[k].poller = i})
Layers(f, layer) == Cardinality({k \in 1..Len(f) : f[k] = layer})

\* The wrappers and middlewares the plugin has installed.
Activations ==
  Layers(krt, "krtProxy") + Layers(tracker.track, "trackProxy")
    + analytics.middlewares

\* Nothing the plugin could wrap or register with is on the page.
GlobalAbsent ==
  krt = NoFunction /\ tracker.track = NoFunction
    /\ ~analytics.addSourceMiddleware

\* C12: a polling loop that finds the timeout exceeded reports one failure
\* with console.error, nothing being thrown to the caller of init, and polls
\* no more: no loop sleeps again past its timeout and no other loop has
\* reported; on a page where the third-party global never appeared nothing
\* is wrapped or registered.
C12_TimeoutReportedOnce ==
  /\ \A i \in Pollers :
       /\ Reports(i) = IF pollers[i].state = "failed" THEN 1 ELSE 0
       /\ pollers[i].state = "sleeping" =>
            pollers[i].since - pollers[i].startTime <= Timeout(plugin)
  /\ Activations = Cardinality({i \in Pollers : pollers[i].state = "done"})
  /\ GlobalAbsent => Activations = 0

\* Two calls of init on a page where the global never appeared: both loops
\* have timed out, each reported once.
C12_Witness ==
  /\ GlobalAbsent
  /\ Len(pollers) = 2
  /\ \A i \in Pollers : pollers[i].state = "failed"
  /\ Len(console) = 2
  /\ Activations = 0

\* C13: whatever the number of init calls and polling iterations, the
\* third-party global is wrapped at most once.
C13_WrappedAtMostOnce == Activations <= 1

(***************************************************************************)
(* Properties of the plugins' wrappers, checked under PluginSpec.          *)
(***************************************************************************)
\* The calls a wrapper made of the function it wraps, or of next.
Delegated(effects) == SelectSeq(effects, LAMBDA x : x.fn # "identify")

\* The event a middleware call was about, and what the plugin was
\* configured with: a field name left out or given as undefined is not
\* configured.
EventOf(payload) == Get(Get(Get(payload, "obj"), "context"), "event")
EmailField == Key(Coalesce(Opt(plugin.options, "emailFieldName"), Str("email")))
PropertyFields ==
  LET names == Coalesce(Opt(plugin.options, "propertiesFieldNames"), Arr(<<>>))
  IN {names.value[k] : k \in 1..Len(names.value)}

\* C14: for every event it receives the Segment middleware calls next
\* exactly once, with the payload it was given, whether or not the event is
\* an identify event.
C14_NextCalledOnce ==
  outcome.target = "middleware" =>
    Delegated(outcome.effects) = <<Call("next", outcome.args)>>

\* C15: the Segment middleware calls tag.identify once when the event is an
\* identify event whose traits carry an email under the configured field
\* name, and not at all otherwise; the request is { email, properties }
\* where properties holds the value of each configured property field that
\* is present in the traits, and nothing else.
C15_ForwardsEmailAndProperties ==
  outcome.target = "middleware" =>
    LET event == EventOf(outcome.args[1])
        traits == Get(event, "traits")
        email == OptGet(traits, EmailField)
        present == IF traits.type = "object"
                     THEN PropertyFields \cap DOMAIN traits.value ELSE {}
        expected == Obj([email |-> email,
                         properties |-> Obj([k \in present |-> Get(traits, k)])])
        fw == Forwarded(outcome.effects)
    IN IF StrictEq(Get(event, "type"), Str("identify")) /\ truthy(email)
         THEN Len(fw) = 1 /\ fw[1].args = <<expected>>
         ELSE fw = <<>>

\* The original function behind a wrapped Karte entry point.
Original(target) == IF target = "krt" THEN NativeKrt ELSE NativeTrack

\* C16: every call of a wrapped Karte entry point calls the original once,
\* with the same arguments, and returns what the original returned.
C16_DelegatesAndReturns ==
  outcome.target \in {"krt", "track"} =>
    /\ ~outcome.threw
    /\ Delegated(outcome.effects)
         = <<Call(Original(outcome.target)[1], outcome.args)>>
    /\ outcome.returned = OriginalReturn

\* The value argument of an identify call of a Karte entry point, undefined
\* for any other call.
IdentifyValue(target, args) ==
  IF target = "krt"
    THEN IF Len(args) >= 3 /\ StrictEq(args[1], Str("send"))
              /\ StrictEq(args[2], Str("identify"))
           THEN args[3] ELSE Undefined
    ELSE IF Len(args) >= 2 /\ StrictEq(args[1], Str("identify"))
           THEN args[2] ELSE Undefined

\* C17: a call ("send", "identify", value) of the wrapped krt, or
\* ("identify", value) of the wrapped tracker.track, with value.email set,
\* calls tag.identify once, with that email, after the original was called;
\* any other call does not call tag.identify.
C17_IdentifyForwardedOnce ==
  outcome.target \in {"krt", "track"} =>
    LET email == Get(IdentifyValue(outcome.target, outcome.args), "email")
    IN IF truthy(email)
         THEN /\ Len(outcome.effects) = 2
              /\ outcome.effects[1].fn = Original(outcome.target)[1]
              /\ outcome.effects[2].fn = "identify"
              /\ outcome.effects[2].args = <<email>>
         ELSE Forwarded(outcome.effects) = <<>>

\* window.krt("send", "identify", { email: "x@y.com" }) has called the
\* original and then tag.identify, whose call is suspended at the gate.
C17_Witness ==
  /\ outcome.target = "krt"
  /\ outcome.args = <<Str("send"), Str("identify"), WithEmail>>
  /\ Forwarded(outcome.effects) = <<Forward(<<Str("x@y.com")>>, FALSE)>>
  /\ Len(ops) = 1
  /\ ops[1].kind = "identify" /\ ops[1].stage = "gate"

\* C18: when the promise of a tag.identify call made by a plugin rejects,
\* the plugin's catch handler takes the rejection: none is left unhandled.
C18_RejectionsCaught ==
  \A i \in 1..Len(forwards) : ops[i].stage = "rejected" => forwards[i]

\* C19: no wrapper or middleware throws into the third party's call,
\* whatever the arguments, and the original function or next is called.
C19_WrappersNeverThrow ==
  outcome.target # "none" =>
    /\ ~outcome.threw
    /\ Delegated(outcome.effects) # <<>>

\* C23: for a visitor that is not automated and a session that is ready,
\* each Karte identify event with a valid email leads to exactly one
\* identify request handed to the remote client: once the tag.identify call
\* made for it has settled, that one request has been issued.  (Every call
\* the Karte wrappers make of tag.identify is for such an event.)
C23_KarteIdentifyReachesRemote ==
  (plugin.variant = "karte" /\ SessionReady) =>
    \A i \in 1..Len(forwards) :
      ops[i].stage \in {"resolved", "rejected"} =>
        Cardinality(RequestsOf(i)) = 1

\* C21: when the third-party global became usable before the timeout had
\* elapsed since init, the polling loop started by that init does not end
\* with a timeout failure (it goes on to wrap the global or register the
\* middleware).
C21_PresentInTimeNeverTimesOut ==
  \A i \in Pollers :
    (loadedAt >= 0 /\ loadedAt - pollers[i].startTime < Timeout(plugin)) =>
      pollers[i].state # "failed"

=============================================================================
